---------------------------- MODULE Spec2Model ----------------------------
(***************************************************************************)
(* Model of the S3-triggered ETL Lambda of src/src/handler.rs.             *)
(*                                                                         *)
(* One invocation walks the handler: read the first record of the event,   *)
(* get the object, decode it as CSV, transform, encode, put it into the    *)
(* output bucket, return.  The storage service is an opaque capability     *)
(* whose get and put either succeed or fail.  Bytes are sequences of       *)
(* one-character strings.                                                  *)
(*                                                                         *)
(* The handler binds the value of read_s3_object to a DataFrame and        *)
(* matches the value of write_s3_object as a Result, so both calls are     *)
(* taken to run to completion before the handler goes on.  Control flow    *)
(* is read as written: an unwrap of None or Err panics, a match arm's      *)
(* value is not a return, and the handler's value is its last expression.  *)
(***************************************************************************)
EXTENDS Integers, Sequences, FiniteSets, TLC

-----------------------------------------------------------------------------
(* Characters of the delimited-text encoding                               *)

COMMA == ","
NL    == "\n"
QUOTE == "\""

Digits == {"0", "1"}

-----------------------------------------------------------------------------
(* Tabular codec: CsvReader::new(cursor).finish() and                      *)
(* CsvWriter::new()...finish(data), with the options the source sets       *)
(* (headers on, separator ",", quote char '"', line terminator "\n") and   *)
(* the reader's defaults.                                                  *)

Contains(s, c) == \E i \in 1..Len(s) : s[i] = c

\* Splits bytes into lines of fields.  A quoted field may hold separators
\* and line terminators; a doubled quote inside quotes is one quote.  The
\* result is [ok, lines]; ok is FALSE when a quoted field is unterminated.
RECURSIVE Scan(_, _, _, _, _, _, _)
Scan(bs, i, inq, pending, field, line, lines) ==
    IF i > Len(bs)
    THEN IF inq THEN [ok |-> FALSE, lines |-> <<>>]
         ELSE IF pending
              THEN [ok |-> TRUE, lines |-> Append(lines, Append(line, field))]
              ELSE [ok |-> TRUE, lines |-> lines]
    ELSE LET c == bs[i] IN
         IF inq
         THEN IF c = QUOTE
              THEN IF i < Len(bs) /\ bs[i + 1] = QUOTE
                   THEN Scan(bs, i + 2, TRUE, TRUE, Append(field, QUOTE), line, lines)
                   ELSE Scan(bs, i + 1, FALSE, TRUE, field, line, lines)
              ELSE Scan(bs, i + 1, TRUE, TRUE, Append(field, c), line, lines)
         ELSE IF c = QUOTE
              THEN Scan(bs, i + 1, TRUE, TRUE, field, line, lines)
              ELSE IF c = COMMA
              THEN Scan(bs, i + 1, FALSE, TRUE, <<>>, Append(line, field), lines)
              ELSE IF c = NL
              THEN Scan(bs, i + 1, FALSE, FALSE, <<>>, <<>>,
                        Append(lines, Append(line, field)))
              ELSE Scan(bs, i + 1, FALSE, TRUE, Append(field, c), line, lines)

IsInt(cell) == cell # <<>> /\ \A i \in 1..Len(cell) : cell[i] \in Digits

\* The text an integer cell is written back as: no leading zeros.
RECURSIVE StripZeros(_)
StripZeros(cell) ==
    IF Len(cell) > 1 /\ cell[1] = "0" THEN StripZeros(Tail(cell)) ELSE cell

\* A row shorter than the header is filled with nulls (the empty cell).
Pad(row, n) == [j \in 1..n |-> IF j <= Len(row) THEN row[j] ELSE <<>>]

\* A column is typed integer when all its non-null cells are integers.
IntColumn(rows, j) ==
    /\ \E r \in 1..Len(rows) : rows[r][j] # <<>>
    /\ \A r \in 1..Len(rows) : rows[r][j] = <<>> \/ IsInt(rows[r][j])

Typed(rows, n) ==
    [r \in 1..Len(rows) |->
        [j \in 1..n |-> IF IntColumn(rows, j) THEN StripZeros(rows[r][j])
                                              ELSE rows[r][j]]]

MalformedInputError == "MalformedInputError"

\* decode: the first line is the header, every other line a row.
decode(bs) ==
    LET s == Scan(bs, 1, FALSE, FALSE, <<>>, <<>>, <<>>) IN
    IF bs = <<>> \/ ~s.ok \/ s.lines = <<>>
    THEN [ok |-> FALSE, err |-> MalformedInputError]
    ELSE LET cols == s.lines[1]
             n    == Len(cols)
             raw  == Tail(s.lines)
         IN IF \E r \in 1..Len(raw) : Len(raw[r]) > n
            THEN [ok |-> FALSE, err |-> MalformedInputError]
            ELSE [ok |-> TRUE,
                  df |-> [cols |-> cols,
                          rows |-> Typed([r \in 1..Len(raw) |-> Pad(raw[r], n)], n)]]

RECURSIVE DoubleQuotes(_)
DoubleQuotes(cell) ==
    IF cell = <<>> THEN <<>>
    ELSE IF cell[1] = QUOTE
         THEN <<QUOTE, QUOTE>> \o DoubleQuotes(Tail(cell))
         ELSE <<cell[1]>> \o DoubleQuotes(Tail(cell))

\* A plausible slip: fields are written without quoting.
EncodeFieldPlain(cell) == cell

\* A field is quoted only when it holds a separator, a quote or a terminator.
EncodeField(cell) ==
    IF Contains(cell, COMMA) \/ Contains(cell, QUOTE) \/ Contains(cell, NL)
    THEN <<QUOTE>> \o DoubleQuotes(cell) \o <<QUOTE>>
    ELSE cell

RECURSIVE EncodeLine(_)
EncodeLine(row) ==
    IF row = <<>> THEN <<NL>>
    ELSE IF Len(row) = 1 THEN EncodeField(row[1]) \o <<NL>>
    ELSE EncodeField(row[1]) \o <<COMMA>> \o EncodeLine(Tail(row))

RECURSIVE EncodeRows(_)
EncodeRows(rows) ==
    IF rows = <<>> THEN <<>> ELSE EncodeLine(rows[1]) \o EncodeRows(Tail(rows))

\* encode: a header line, then one line per row, each ended by "\n".
encode(df) == EncodeLine(df.cols) \o EncodeRows(df.rows)

-----------------------------------------------------------------------------
(* Storage, events and the inputs an invocation is run on                  *)

SRC_BUCKET == "src-bucket"

\* env!("OUTPUT_S3_BUCKET")
OUTPUT_S3_BUCKET == "dst-bucket"

Buckets == {SRC_BUCKET, OUTPUT_S3_BUCKET}

SourceKeys == {"in.csv", "b.csv"}

\* Keys of storage: the keys of source objects and the empty key.
Keys == SourceKeys \cup {""}

\* An absent object.
Absent == <<"absent">>

\* An absent Option in an event record.
None == "None"

\* Source contents: well-formed, without a final line terminator, with a
\* number written with a leading zero, with a row longer or shorter than
\* the header, empty, with a needlessly quoted field, with an unterminated
\* quote.
CsvPlain    == <<"a", ",", "b", "\n", "1", ",", "b", "\n">>
CsvNoEol    == <<"a", "\n", "b">>
CsvZero     == <<"a", "\n", "0", "1", "\n">>
CsvLongRow  == <<"a", "\n", "1", ",", "1", "\n">>
CsvShortRow == <<"a", ",", "b", "\n", "1", "\n">>
CsvEmpty    == <<>>
CsvQuoted   == <<"a", "\n", "\"", "b", "\"", "\n">>
CsvOpen     == <<"a", "\n", "\"", "b">>
CsvOther    == <<"b", "\n", "0", "\n">>
CsvOld      == <<"o", "\n">>

Contents == {CsvPlain, CsvNoEol, CsvZero, CsvLongRow, CsvShortRow, CsvEmpty,
             CsvQuoted, CsvOpen}

\* Request ids of the invocations (event.context.request_id).
Requests == {"req-1", "req-2"}

\* Longest event.
MaxRecords == 2

\* S3EventRecord.s3: bucket.name and object.key are Options.
Records == {[bucket |-> SRC_BUCKET, key |-> "in.csv"],
            [bucket |-> SRC_BUCKET, key |-> "b.csv"],
            [bucket |-> OUTPUT_S3_BUCKET, key |-> "in.csv"],
            [bucket |-> None,       key |-> "in.csv"]}

\* The record that follows the first one in a longer event.
NextRecord == [bucket |-> SRC_BUCKET, key |-> "b.csv"]

\* Events: no record, or a first record followed by up to MaxRecords - 1
\* records.
Events ==
    {<<>>} \cup {<<r>> \o [j \in 1..n |-> NextRecord] :
                    r \in Records, n \in 0..(MaxRecords - 1)}

\* Failures of the storage capability other than an absent object.
StorageErrors == {"TransientStorageError"}

NotFoundError == "NotFoundError"

\* A frame without columns.
EmptyFrame == [cols |-> <<>>, rows |-> <<>>]

Unit == [unit |-> TRUE]

VARIABLES
    store,       \* [bucket, key] -> bytes or Absent
    store0,      \* the store before any invocation
    pc,          \* position of each invocation in the handler
    event,       \* event.payload.records
    prior,       \* the invocations that had ended when this one began
    bucket,      \* handler local: bucket
    key,         \* handler local: key
    get,         \* the get request: [st, err, body]
    bytes,       \* read_s3_object local: bytes
    data,        \* handler local: data
    output_key,  \* handler local: output_key
    csv,         \* write_s3_object local: csv
    put,         \* the put request: [st, err]
    result,      \* handler local: result
    response,    \* handler local: response
    logged,      \* messages written with tracing::info!
    issued,      \* the requests sent to the storage capability
    outcome,     \* what the host runtime gets from the invocation
    gets, transforms, puts, results   \* how often each has happened

locals == <<bucket, key, get, bytes, data, output_key, csv, put, result, response>>
counts == <<gets, transforms, puts, results>>
vars == <<store, store0, pc, event, prior, locals, logged, issued, outcome, counts>>

InitStores ==
    {[l \in Buckets \X Keys |->
        IF l = <<SRC_BUCKET, "in.csv">> THEN a
        ELSE IF l = <<SRC_BUCKET, "b.csv">> THEN b
        ELSE IF l = <<OUTPUT_S3_BUCKET, "">> THEN o
        ELSE IF l = <<OUTPUT_S3_BUCKET, "in.csv">> THEN CsvOld
        ELSE Absent]
     : a \in Contents \cup {Absent}, b \in {CsvOther}, o \in {Absent, CsvOld}}

Init ==
    /\ store \in InitStores
    /\ store0 = store
    /\ pc = [i \in Requests |-> "idle"]
    /\ event = [i \in Requests |-> <<>>]
    /\ prior = [i \in Requests |-> {}]
    /\ bucket = [i \in Requests |-> None]
    /\ key = [i \in Requests |-> None]
    /\ get = [i \in Requests |-> [st |-> "none", err |-> "", body |-> <<>>]]
    /\ bytes = [i \in Requests |-> <<>>]
    /\ data = [i \in Requests |-> EmptyFrame]
    /\ output_key = [i \in Requests |-> None]
    /\ csv = [i \in Requests |-> <<>>]
    /\ put = [i \in Requests |-> [st |-> "none", err |-> ""]]
    /\ result = [i \in Requests |-> [kind |-> "none", err |-> ""]]
    /\ response = [i \in Requests |-> Unit]
    /\ logged = [i \in Requests |-> {}]
    /\ issued = [i \in Requests |-> {}]
    /\ outcome = [i \in Requests |-> [kind |-> "none", value |-> Unit]]
    /\ gets = [i \in Requests |-> 0]
    /\ transforms = [i \in Requests |-> 0]
    /\ puts = [i \in Requests |-> 0]
    /\ results = [i \in Requests |-> 0]

-----------------------------------------------------------------------------
(* The handler, one action per step                                        *)

Set(f, i, v) == [f EXCEPT ![i] = v]

\* A plausible slip: the panic is reported and the handler still returns.
PanicAndGoOn(i, why) ==
    /\ pc' = Set(pc, i, "return")
    /\ outcome' = Set(outcome, i, [kind |-> "panic", value |-> [err |-> why]])
    /\ results' = Set(results, i, results[i] + 1)

\* The invocation ends in a panic (an unwrap of None or of an Err); the
\* runtime reports it to the host as a failed invocation.
PanicWith(i, why) ==
    /\ pc' = Set(pc, i, "done")
    /\ outcome' = Set(outcome, i, [kind |-> "panic", value |-> [err |-> why]])
    /\ results' = Set(results, i, results[i] + 1)

\* run(service_fn(...)): the runtime hands an event to the handler.
Invoke(i, ev) ==
    /\ pc[i] = "idle"
    /\ pc' = Set(pc, i, "entry")
    /\ event' = Set(event, i, ev)
    /\ prior' = Set(prior, i, {j \in Requests : pc[j] \in {"done", "cancelled"}})
    /\ UNCHANGED <<issued, store, store0, locals, logged, outcome, counts>>

\* A plausible slip: an event without records is given a record to work on.
first_default(records) ==
    IF records = <<>> THEN <<[bucket |-> SRC_BUCKET, key |-> "in.csv"]>>
                      ELSE <<records[1]>>

\* A plausible slip: the last record is taken.
last(records) == IF records = <<>> THEN <<>> ELSE <<records[Len(records)]>>

\* records.first().map(|event| event.clone().s3): an Option, here a
\* sequence of no or one element.
first(records) == IF records = <<>> THEN <<>> ELSE <<records[1]>>

\* records.len() == 0, records.first(), bucket.name.unwrap(), key.unwrap()
Entry(i) ==
    /\ pc[i] = "entry"
    /\ logged' = Set(logged, i, logged[i] \cup
                     {IF Len(event[i]) = 0 THEN "Empty S3 event received"
                                           ELSE "Received request from SQS"})
    /\ IF first(event[i]) = <<>>
       THEN /\ pc' = Set(pc, i, "return")
            /\ UNCHANGED <<bucket, key, outcome, results>>
       ELSE LET s3_event == first(event[i])[1] IN
            /\ IF s3_event.bucket = None \/ s3_event.key = None
               THEN /\ PanicWith(i, "unwrap on None")
                    /\ UNCHANGED <<bucket, key>>
               ELSE /\ bucket' = Set(bucket, i, s3_event.bucket)
                    /\ key' = Set(key, i, s3_event.key)
                    /\ pc' = Set(pc, i, "get_send")
                    /\ UNCHANGED <<outcome, results>>
    /\ UNCHANGED <<issued, store, store0, event, prior, get, bytes, data, output_key,
                   csv, put, result, response, gets, transforms, puts>>

\* read_s3_object: s3_client.get_object().bucket(bucket).key(key) ... send()
GetSend(i) ==
    /\ pc[i] = "get_send"
    /\ get' = Set(get, i, [st |-> "sent", err |-> "", body |-> <<>>])
    /\ gets' = Set(gets, i, gets[i] + 1)
    /\ issued' = Set(issued, i, issued[i] \cup
                     {[op |-> "get", bucket |-> bucket[i], key |-> key[i]]})
    /\ pc' = Set(pc, i, "get_wait")
    /\ UNCHANGED <<store, store0, event, prior, bucket, key, bytes, data,
                   output_key, csv, put, result, response, logged, outcome,
                   transforms, puts, results>>

\* The storage capability answers the get: the object's bytes, NotFoundError
\* when it is absent, or another failure.
StorageGet(i) ==
    /\ get[i].st = "sent"
    /\ \/ /\ store[bucket[i], key[i]] # Absent
          /\ get' = Set(get, i, [st |-> "ok", err |-> "",
                                 body |-> store[bucket[i], key[i]]])
       \/ /\ store[bucket[i], key[i]] = Absent
          /\ get' = Set(get, i, [st |-> "err", err |-> NotFoundError, body |-> <<>>])
       \/ \E e \in StorageErrors :
             get' = Set(get, i, [st |-> "err", err |-> e, body |-> <<>>])
    /\ UNCHANGED <<issued, store, store0, pc, event, prior, bucket, key, bytes, data,
                   output_key, csv, put, result, response, logged, outcome, counts>>

\* A plausible slip: a failed get is sent again.
GetRespRetry(i) ==
    /\ pc[i] = "get_wait"
    /\ get[i].st \in {"ok", "err"}
    /\ IF get[i].st = "ok"
       THEN /\ bytes' = Set(bytes, i, get[i].body)
            /\ pc' = Set(pc, i, "decode")
       ELSE /\ pc' = Set(pc, i, "get_send")
            /\ UNCHANGED bytes
    /\ UNCHANGED <<issued, store, store0, event, prior, bucket, key, get, data,
                   output_key, csv, put, result, response, logged, outcome, counts>>

\* read_s3_object: match response.  Ok: the body is collected (unwrap).
\* Err: a message is logged and nothing else; the handler goes on to
\* transform with a frame that was never loaded.
GetResp(i) ==
    /\ pc[i] = "get_wait"
    /\ get[i].st \in {"ok", "err"}
    /\ IF get[i].st = "ok"
       THEN /\ bytes' = Set(bytes, i, get[i].body)
            /\ pc' = Set(pc, i, "decode")
            /\ UNCHANGED <<data, logged>>
       ELSE /\ logged' = Set(logged, i,
                             logged[i] \cup {"Failure with S3 Get Object request"})
            /\ data' = Set(data, i, EmptyFrame)
            /\ pc' = Set(pc, i, "transform")
            /\ UNCHANGED bytes
    /\ UNCHANGED <<issued, store, store0, event, prior, bucket, key, get, output_key,
                   csv, put, result, response, outcome, counts>>

\* read_s3_object: CsvReader::new(cursor).finish().unwrap(); Ok(df)
Decode(i) ==
    /\ pc[i] = "decode"
    /\ LET d == decode(bytes[i]) IN
       IF d.ok
       THEN /\ data' = Set(data, i, d.df)
            /\ pc' = Set(pc, i, "transform")
            /\ UNCHANGED <<outcome, results>>
       ELSE /\ PanicWith(i, d.err)
            /\ UNCHANGED data
    /\ UNCHANGED <<issued, store, store0, event, prior, bucket, key, get, bytes,
                   output_key, csv, put, result, response, logged,
                   gets, transforms, puts>>

\* transform: returns data
transform(df) == df

\* data = transform(&data)
Transform(i) ==
    /\ pc[i] = "transform"
    /\ data' = Set(data, i, transform(data[i]))
    /\ transforms' = Set(transforms, i, transforms[i] + 1)
    /\ pc' = Set(pc, i, "output_key")
    /\ UNCHANGED <<issued, store, store0, event, prior, bucket, key, get, bytes,
                   output_key, csv, put, result, response, logged, outcome,
                   gets, puts, results>>

\* A plausible slip: the output key is made from the request id.
derive_key_by_request(source_key, req_id) ==
    IF req_id = "req-1" THEN "in.csv" ELSE "b.csv"

\* The output key prepared for a source key and a request: "".
derive_key(source_key, req_id) == ""

\* let output_key:String = ""
OutputKey(i) ==
    /\ pc[i] = "output_key"
    /\ output_key' = Set(output_key, i, derive_key(key[i], i))
    /\ pc' = Set(pc, i, "encode")
    /\ UNCHANGED <<issued, store, store0, event, prior, bucket, key, get, bytes, data,
                   csv, put, result, response, logged, outcome, counts>>

\* write_s3_object: CsvWriter ... finish(data).unwrap(); ByteStream::from(csv)
Encode(i) ==
    /\ pc[i] = "encode"
    /\ csv' = Set(csv, i, encode(data[i]))
    /\ pc' = Set(pc, i, "put_send")
    /\ UNCHANGED <<issued, store, store0, event, prior, bucket, key, get, bytes, data,
                   output_key, put, result, response, logged, outcome, counts>>

\* A plausible slip: the put goes to the bucket of the event.
output_bucket_of_event(i) == bucket[i]

\* let output_bucket:String = env!("OUTPUT_S3_BUCKET", ...)
output_bucket(i) == OUTPUT_S3_BUCKET

\* write_s3_object: s3_client.put_object().bucket().key().body() ... send()
PutSend(i) ==
    /\ pc[i] = "put_send"
    /\ put' = Set(put, i, [st |-> "sent", err |-> ""])
    /\ puts' = Set(puts, i, puts[i] + 1)
    /\ issued' = Set(issued, i, issued[i] \cup
                     {[op |-> "put", bucket |-> output_bucket(i),
                       key |-> output_key[i]]})
    /\ pc' = Set(pc, i, "put_wait")
    /\ UNCHANGED <<store, store0, event, prior, bucket, key, get, bytes, data,
                   output_key, csv, result, response, logged, outcome,
                   gets, transforms, results>>

\* A plausible slip: the body is stored without its end.
StoredPartly(body) == SubSeq(body, 1, Len(body) - 1)

\* What a put of body leaves in the object: the whole body.
Stored(body) == body

\* The storage capability answers the put: the object is replaced as a
\* whole, or the put fails and the object is as it was.
StoragePut(i) ==
    /\ put[i].st = "sent"
    /\ \/ /\ store' = [store EXCEPT ![output_bucket(i), output_key[i]] = Stored(csv[i])]
          /\ put' = Set(put, i, [st |-> "ok", err |-> ""])
       \/ \E e \in StorageErrors :
             /\ put' = Set(put, i, [st |-> "err", err |-> e])
             /\ UNCHANGED store
    /\ UNCHANGED <<issued, store0, pc, event, prior, bucket, key, get, bytes, data,
                   output_key, csv, result, response, logged, outcome, counts>>

\* let result = write_s3_object(...)
PutResp(i) ==
    /\ pc[i] = "put_wait"
    /\ put[i].st \in {"ok", "err"}
    /\ result' = Set(result, i, [kind |-> IF put[i].st = "ok" THEN "Ok" ELSE "Err",
                                 err |-> put[i].err])
    /\ pc' = Set(pc, i, "match")
    /\ UNCHANGED <<issued, store, store0, event, prior, bucket, key, get, bytes, data,
                   output_key, csv, put, response, logged, outcome, counts>>

\* Response { req_id: event.context.request_id, msg: ... }
Response(i) == [req_id |-> i, msg |-> "Completed Processing Data!"]

\* match result: Ok builds the response, Err logs the error; the value of
\* the match is the value of the if-let block and is not returned.
Match(i) ==
    /\ pc[i] = "match"
    /\ IF result[i].kind = "Ok"
       THEN /\ response' = Set(response, i, Response(i))
            /\ logged' = Set(logged, i, logged[i] \cup {"Completed Processing Data"})
       ELSE /\ logged' = Set(logged, i, logged[i] \cup {"SDK Error"})
            /\ UNCHANGED response
    /\ pc' = Set(pc, i, "return")
    /\ UNCHANGED <<issued, store, store0, event, prior, bucket, key, get, bytes, data,
                   output_key, csv, put, result, outcome, counts>>

\* The value the handler returns: Ok(())
Returned(i) == [kind |-> "Ok", value |-> Unit]

\* Ok(()) at the end of the handler
Return(i) ==
    /\ pc[i] = "return"
    /\ outcome' = Set(outcome, i, Returned(i))
    /\ results' = Set(results, i, results[i] + 1)
    /\ pc' = Set(pc, i, "done")
    /\ UNCHANGED <<issued, store, store0, event, prior, locals, logged,
                   gets, transforms, puts>>

\* The host cancels or times out the invocation while it waits for storage;
\* a request already sent may still be answered.
Cancel(i) ==
    /\ pc[i] \in {"get_wait", "put_wait"}
    /\ pc' = Set(pc, i, "cancelled")
    /\ UNCHANGED <<issued, store, store0, event, prior, locals, logged, outcome, counts>>

Step(i) ==
    \/ Entry(i) \/ GetSend(i) \/ GetResp(i) \/ Decode(i) \/ Transform(i)
    \/ OutputKey(i) \/ Encode(i) \/ PutSend(i) \/ PutResp(i) \/ Match(i)
    \/ Return(i)

Next ==
    \/ \E i \in Requests, ev \in Events : Invoke(i, ev)
    \/ \E i \in Requests : Entry(i)
    \/ \E i \in Requests : GetSend(i)
    \/ \E i \in Requests : StorageGet(i)
    \/ \E i \in Requests : GetResp(i)
    \/ \E i \in Requests : Decode(i)
    \/ \E i \in Requests : Transform(i)
    \/ \E i \in Requests : OutputKey(i)
    \/ \E i \in Requests : Encode(i)
    \/ \E i \in Requests : PutSend(i)
    \/ \E i \in Requests : StoragePut(i)
    \/ \E i \in Requests : PutResp(i)
    \/ \E i \in Requests : Match(i)
    \/ \E i \in Requests : Return(i)
    \/ \E i \in Requests : Cancel(i)

Spec == Init /\ [][Next]_vars

TypeOK ==
    /\ pc \in [Requests -> {"idle", "entry", "get_send", "get_wait", "decode",
                            "transform", "output_key", "encode", "put_send",
                            "put_wait", "match", "return", "done", "cancelled"}]
    /\ \A i \in Requests : gets[i] \in 0..1 /\ puts[i] \in 0..1

\* Next without cancellation by the host.
RunNext ==
    \/ \E i \in Requests, ev \in Events : Invoke(i, ev)
    \/ \E i \in Requests : Step(i)
    \/ \E i \in Requests : StorageGet(i)
    \/ \E i \in Requests : StoragePut(i)

\* Invocations that the host lets run, with a storage capability that
\* answers every request.
\* Init with a source object that decodes, one that does not, or none, and
\* an empty output bucket.
LiveInit ==
    /\ Init
    /\ store[SRC_BUCKET, "in.csv"] \in {CsvPlain, CsvLongRow, Absent}
    /\ store[OUTPUT_S3_BUCKET, ""] = Absent

LiveSpec ==
    /\ LiveInit /\ [][RunNext]_vars
    /\ \A i \in Requests : WF_vars(Step(i) \/ StorageGet(i) \/ StoragePut(i))

-----------------------------------------------------------------------------
(* Properties                                                              *)

Ended(i) == pc[i] = "done"

\* The invocation got the put acknowledged.
Succeeded(i) == Ended(i) /\ result[i].kind = "Ok"

Failure(e) == [kind |-> "Err", value |-> [err |-> e]]

\* C1: an invocation whose get failed issues no put and ends with a failure
\* that carries the error of the get.
C1_GetFailureIsReturned ==
    \A i \in Requests :
        (get[i].st = "err" /\ pc[i] \notin {"get_wait", "cancelled"}) =>
            /\ puts[i] = 0
            /\ Ended(i) => outcome[i] = Failure(get[i].err)

\* C2: an invocation whose put failed (after a get that succeeded) ends with
\* a failure that carries the error of the put, never with a success.
C2_PutFailureIsReturned ==
    \A i \in Requests :
        (Ended(i) /\ get[i].st = "ok" /\ result[i].kind = "Err") =>
            outcome[i] = Failure(result[i].err)

\* The bytes the codec is specified to reject: no bytes, or a row whose
\* number of fields is not the header's.
Undecodable(bs) ==
    LET s == Scan(bs, 1, FALSE, FALSE, <<>>, <<>>, <<>>) IN
    \/ bs = <<>>
    \/ s.ok /\ \E r \in 2..Len(s.lines) : Len(s.lines[r]) # Len(s.lines[1])

\* C3: an invocation that downloaded bytes that cannot be decoded ends with
\* MalformedInputError as an error value, with no transform and no put.
C3_MalformedInputIsReturned ==
    \A i \in Requests :
        (Ended(i) /\ get[i].st = "ok" /\ Undecodable(get[i].body)) =>
            /\ outcome[i] = Failure(MalformedInputError)
            /\ transforms[i] = 0
            /\ puts[i] = 0

\* C4: an invocation of an event without records gets nothing, transforms
\* nothing, puts nothing, and ends with a success.
C4_EmptyEventIsNoOp ==
    \A i \in Requests :
        (pc[i] # "idle" /\ event[i] = <<>>) =>
            /\ gets[i] = 0 /\ transforms[i] = 0 /\ puts[i] = 0
            /\ get[i].st = "none" /\ put[i].st = "none"
            /\ Ended(i) => outcome[i].kind = "Ok"

C4_Witness == \E i \in Requests : Ended(i) /\ event[i] = <<>>

\* C5: the key given to the writer is not empty, and two invocations for
\* the same source key give the writer the same key.
C5_OutputKeyDerived ==
    \A i, j \in Requests :
        (get[i].st = "ok" /\ puts[i] > 0 /\ puts[j] > 0) =>
            /\ output_key[i] # ""
            /\ key[i] = key[j] => output_key[i] = output_key[j]

\* C6: after an invocation for the source object (bucket, k) succeeded, and
\* no other invocation has put anything, the output bucket holds at k the
\* bytes of the source object, and transform left the dataset as it was.
C6_IdentityCopy ==
    \A i \in Requests :
        (Succeeded(i) /\ get[i].st = "ok" /\ \A j \in Requests \ {i} : puts[j] = 0) =>
            /\ store[OUTPUT_S3_BUCKET, key[i]] = get[i].body
            /\ data[i] = decode(get[i].body).df

\* The objects of the output bucket.
Objects(st) == {k \in Keys : st[OUTPUT_S3_BUCKET, k] # Absent}

\* j ran after i had ended, for the same source object with the same bytes,
\* and both succeeded.
RanTwice(i, j) ==
    /\ i # j /\ i \in prior[j]
    /\ Succeeded(i) /\ Succeeded(j)
    /\ get[i].st = "ok" /\ get[j].st = "ok"
    /\ bucket[i] = bucket[j] /\ key[i] = key[j]
    /\ get[i].body = get[j].body

\* C7: a second run for the same unchanged source object writes the same
\* key with the same bytes as the first and adds no object.
C7_SecondRunIsIdempotent ==
    \A i, j \in Requests :
        RanTwice(i, j) =>
            /\ output_key[j] = output_key[i]
            /\ csv[j] = csv[i]
            /\ store[OUTPUT_S3_BUCKET, output_key[i]] = csv[i]
            /\ Objects(store) = Objects(store0) \cup {output_key[i]}

C7_Witness == \E i, j \in Requests : RanTwice(i, j)

\* C8: every object of the output bucket is as it was before the
\* invocations or holds the whole encoded payload of an invocation that
\* sent a put for it, also after a cancellation.
C8_NoPartialObject ==
    \A k \in Keys :
        \/ store[OUTPUT_S3_BUCKET, k] = store0[OUTPUT_S3_BUCKET, k]
        \/ \E i \in Requests :
              /\ puts[i] > 0 /\ output_key[i] = k
              /\ store[OUTPUT_S3_BUCKET, k] = encode(data[i])

C8_Witness ==
    \E i \in Requests :
        /\ pc[i] = "cancelled" /\ put[i].st = "ok"
        /\ store[OUTPUT_S3_BUCKET, output_key[i]] # store0[OUTPUT_S3_BUCKET, output_key[i]]

\* C9: an invocation never has more than one result, has exactly one when
\* it has ended, and every invocation that began ends.
C9_ExactlyOneResult ==
    /\ [](\A i \in Requests :
            /\ results[i] <= 1
            /\ results[i] = 1 <=> outcome[i].kind # "none"
            /\ Ended(i) => results[i] = 1)
    /\ \A i \in Requests : (pc[i] = "entry") ~> (Ended(i) /\ results[i] = 1)

C9_Witness == \A i \in Requests : Ended(i) /\ results[i] = 1

\* C10: a successful invocation of an event with records returns a success
\* payload with the request id, the source bucket, the source key and a
\* message.
C10_SuccessPayload ==
    \A i \in Requests :
        (Succeeded(i) /\ get[i].st = "ok") =>
            /\ outcome[i].kind = "Ok"
            /\ outcome[i].value = [req_id |-> i, bucket |-> bucket[i],
                                   key |-> key[i], msg |-> response[i].msg]

-----------------------------------------------------------------------------
(* The codec on every short byte sequence                                  *)

\* Longest byte sequence decoded.
MaxLen == 5

Alphabet == {"a", "0", "1", COMMA, NL, QUOTE}

ByteStrings == UNION {[1..n -> Alphabet] : n \in 0..MaxLen}

CodecRequest == "req-1"

\* The state of an invocation for src-bucket/in.csv whose get has just
\* answered with a byte sequence; the other invocation has not begun.
CodecInit ==
    \E bs \in ByteStrings :
        /\ store = [l \in Buckets \X Keys |->
                       IF l = <<SRC_BUCKET, "in.csv">> THEN bs ELSE Absent]
        /\ store0 = store
        /\ pc = [i \in Requests |-> IF i = CodecRequest THEN "decode" ELSE "idle"]
        /\ event = [i \in Requests |->
                       IF i = CodecRequest
                       THEN <<[bucket |-> SRC_BUCKET, key |-> "in.csv"]>> ELSE <<>>]
        /\ prior = [i \in Requests |-> {}]
        /\ bucket = [i \in Requests |-> IF i = CodecRequest THEN SRC_BUCKET ELSE None]
        /\ key = [i \in Requests |-> IF i = CodecRequest THEN "in.csv" ELSE None]
        /\ get = [i \in Requests |->
                     IF i = CodecRequest THEN [st |-> "ok", err |-> "", body |-> bs]
                     ELSE [st |-> "none", err |-> "", body |-> <<>>]]
        /\ bytes = [i \in Requests |-> IF i = CodecRequest THEN bs ELSE <<>>]
        /\ data = [i \in Requests |-> EmptyFrame]
        /\ output_key = [i \in Requests |-> None]
        /\ csv = [i \in Requests |-> <<>>]
        /\ put = [i \in Requests |-> [st |-> "none", err |-> ""]]
        /\ result = [i \in Requests |-> [kind |-> "none", err |-> ""]]
        /\ response = [i \in Requests |-> Unit]
        /\ logged = [i \in Requests |->
                        IF i = CodecRequest THEN {"Received request from SQS"} ELSE {}]
        /\ issued = [i \in Requests |->
                        IF i = CodecRequest
                        THEN {[op |-> "get", bucket |-> SRC_BUCKET, key |-> "in.csv"]}
                        ELSE {}]
        /\ outcome = [i \in Requests |-> [kind |-> "none", value |-> Unit]]
        /\ gets = [i \in Requests |-> IF i = CodecRequest THEN 1 ELSE 0]
        /\ transforms = [i \in Requests |-> 0]
        /\ puts = [i \in Requests |-> 0]
        /\ results = [i \in Requests |-> 0]

\* From the downloaded bytes to the bytes of the put.
CodecNext ==
    \/ Decode(CodecRequest)
    \/ Transform(CodecRequest)
    \/ OutputKey(CodecRequest)
    \/ Encode(CodecRequest)

CodecSpec == CodecInit /\ [][CodecNext]_vars

-----------------------------------------------------------------------------
(* Order of the stages, requests sent, and what an invocation changes      *)

\* C12: a put is sent only after the get succeeded, its bytes were decoded
\* and transform returned; transform runs only after the get was answered.
C12_StagesInOrder ==
    \A i \in Requests :
        /\ puts[i] > 0 =>
              /\ get[i].st = "ok"
              /\ bytes[i] = get[i].body /\ decode(bytes[i]).ok
              /\ transforms[i] = 1
        /\ transforms[i] > 0 => get[i].st \in {"ok", "err"}

\* C13: an invocation sends at most one get and at most one put, whatever
\* the storage capability answers.
C13_NoRetries ==
    \A i \in Requests :
        /\ gets[i] <= 1
        /\ puts[i] <= 1
        /\ Cardinality(issued[i]) <= 2

\* An invocation that ended after its get and its put both failed.
C13_Witness ==
    \E i \in Requests :
        Ended(i) /\ get[i].st = "err" /\ put[i].st = "err" /\ gets[i] = 1 /\ puts[i] = 1

\* The object a record names.
Locator(r) == <<r.bucket, r.key>>

\* C14: every get of an invocation is for the object of the first record,
\* no request is for an object only a later record names, and an invocation
\* that returned for an event with records has sent exactly one get.
C14_FirstRecordOnly ==
    \A i \in Requests :
        event[i] # <<>> =>
            /\ \A r \in issued[i] :
                  /\ r.op = "get" => Locator(r) = Locator(event[i][1])
                  /\ \A n \in 2..Len(event[i]) :
                        Locator(event[i][n]) # Locator(event[i][1]) =>
                            Locator(r) # Locator(event[i][n])
            /\ (Ended(i) /\ outcome[i].kind = "Ok") => gets[i] = 1

C14_Witness ==
    \E i \in Requests :
        /\ Len(event[i]) >= 2
        /\ Locator(event[i][2]) # Locator(event[i][1])
        /\ Ended(i) /\ gets[i] = 1 /\ puts[i] = 1

\* What an invocation alone would leave at its output key.
Alone(i) == encode(transform(decode(get[i].body).df))

\* Both invocations succeeded, each for its own source object.
BothSucceeded(i, j) ==
    /\ i # j
    /\ Succeeded(i) /\ Succeeded(j)
    /\ get[i].st = "ok" /\ get[j].st = "ok"
    /\ <<bucket[i], key[i]>> # <<bucket[j], key[j]>>

\* C15: after two invocations for two different source objects both
\* succeeded, the output key of each holds what that invocation alone
\* would have left there.
C15_NoInterference ==
    \A i, j \in Requests :
        BothSucceeded(i, j) =>
            /\ store[OUTPUT_S3_BUCKET, output_key[i]] = Alone(i)
            /\ store[OUTPUT_S3_BUCKET, output_key[j]] = Alone(j)

\* C16: an invocation sends at most one put, only to the output bucket,
\* and sends nothing but gets and puts; no object of the source bucket and
\* no source object of an invocation changes; an object that changed is one
\* an invocation sent a put for.
C16_SourceUnchanged ==
    /\ \A i \in Requests :
          /\ puts[i] <= 1
          /\ \A r \in issued[i] :
                /\ r.op \in {"get", "put"}
                /\ r.op = "put" => r.bucket = OUTPUT_S3_BUCKET
          /\ gets[i] > 0 => store[bucket[i], key[i]] = store0[bucket[i], key[i]]
    /\ \A k \in Keys : store[SRC_BUCKET, k] = store0[SRC_BUCKET, k]
    /\ \A l \in Buckets \X Keys :
          store[l] # store0[l] =>
              \E i \in Requests :
                  [op |-> "put", bucket |-> l[1], key |-> l[2]] \in issued[i]

\* An invocation for an object of the output bucket itself succeeded, and
\* one for an object of the source bucket ended with its put failed.
C16_Witness ==
    /\ \E i \in Requests :
          /\ Succeeded(i) /\ get[i].st = "ok" /\ bucket[i] = OUTPUT_S3_BUCKET
          /\ store # store0
    /\ \E i \in Requests :
          Ended(i) /\ bucket[i] = SRC_BUCKET /\ put[i].st = "err"

=============================================================================
